---- MODULE Spec2Model ----
(***************************************************************************)
(* Model of mono/metadata/threads-pthread.c: the timed-join primitive      *)
(* (timed_thread_create / timed_thread_exit / timed_thread_join), the      *)
(* `threads` hash table and the System.Threading.Thread internal calls    *)
(* built on them.                                                          *)
(*                                                                         *)
(* Thread 0 is the process's initial thread.  Thread h (1..MaxHandles) is  *)
(* the OS thread that timed_thread_create started for ThreadInfo h; the    *)
(* start routine it runs (the managed delegate) may itself make any of    *)
(* the internal calls.                                                     *)
(***************************************************************************)
EXTENDS Integers, FiniteSets, TLC

\* ---------------------------------------------------------------- bounds
\* ThreadInfo allocations (timed_thread_create calls) in one run: the most
\* any specification makes, and the most Spec and SpecSmall make.
MaxHandles == 3
ConcHandles == 2
SmallHandles == 1
\* pthread_t values the OS hands to created threads (it reuses the value
\* of a thread that has exited): all of them, and those SpecSmall uses.
MaxIds == 2
SmallIds == 1

\* ------------------------------------------------------------- constants
\* gboolean results of Thread_Join_internal.
G_TRUE == 1
G_FALSE == 0
\* "Calling pthread_self() on the main thread seems to always return 1024".
MainTid == 1024
\* Start_internal's "no thread" return value.
NoThread == 0
\* A NULL ThreadInfo pointer / a NULL MonoObject pointer.
NULL == 0

Handles == 1 .. MaxHandles
Min(S) == CHOOSE x \in S : \A y \in S : x <= y
Ids == 1 .. MaxIds
MainThread == 0
Threads == {MainThread} \cup Handles

\* The Thread object mono_thread_init builds for the main line.
main_thread == MaxHandles + 1
\* The Thread object (`this`) passed to the Start call that allocates h.
ThisOf(h) == h

\* Results of the pthread wait primitives (0, ETIMEDOUT, another errno).
OK == "0"
ETIMEDOUT == "ETIMEDOUT"
EINVAL == "EINVAL"
\* nanosleep was interrupted by a signal: it returns -1 and fills rem.
EINTR == "EINTR"

\* The value the start routine of thread t returns (never examined by the
\* code, only stored): one non-NULL value per thread.
Statuses(t) == {t}
\* Millisecond arguments tried for Sleep_internal.
SleepMsValues == {0, 1, 500, 1000, 1500, 2000}
\* Millisecond arguments tried for Join_internal.
MsValues == {0 - 1, 0, 1500}

VARIABLES
    threads,      \* static GHashTable *threads: [ptr, tab]
    info,         \* the ThreadInfo structs: [mem, id, object, status, exiting]
    join_mutex,   \* per ThreadInfo: the thread holding join_mutex, or -1
    exit_cond,    \* per ThreadInfo: the threads blocked on exit_cond
    specific,     \* per thread: pthread_getspecific(timed_thread_key)
    tidOf,        \* per thread: its pthread_t (pthread_self())
    pc,           \* per thread: where it is
    frame,        \* per thread: the locals of the call it is in
    cl_snapshot,  \* g_hash_table_foreach: <<key, value>> entries when it began
    cl_visited,   \* g_hash_table_foreach: keys already handed to the callback
    freeCount,    \* per ThreadInfo: number of g_free calls on it
    removedByJoin,\* ThreadInfos whose table entry a join removed
    ub            \* "none", or how the process left defined behaviour

heap == <<threads, info>>
sync == <<join_mutex, exit_cond>>
os == <<specific, tidOf>>
ctl == <<pc, frame>>
cl == <<cl_snapshot, cl_visited>>
ghost == <<freeCount, removedByJoin, ub>>
vars == <<heap, sync, os, ctl, cl, ghost>>

\* late is not a local of the code: it records whether the ThreadInfo a
\* join found had exiting set when the call looked it up.
\* rem is the time nanosleep reports as remaining, in nanoseconds.
NoFrame == [op |-> "none", ms |-> 0, tid |-> 0, thread |-> NULL,
            result |-> OK, sawNull |-> FALSE, ret |-> 0, late |-> FALSE,
            rem |-> 0]

NoInfo == [mem |-> "none", id |-> 0, object |-> NULL, status |-> NULL,
           exiting |-> FALSE]

EmptyTab == [i \in Ids |-> NULL]

\* Before any call: mono_thread_init has built main_thread, `threads` is
\* NULL (line 39) and only the initial thread runs.
Init ==
    /\ threads = [ptr |-> "NULL", tab |-> EmptyTab]
    /\ info = [h \in Handles |-> NoInfo]
    /\ join_mutex = [h \in Handles |-> 0 - 1]
    /\ exit_cond = [h \in Handles |-> {}]
    /\ specific = [t \in Threads |-> NULL]
    /\ tidOf = [t \in Threads |-> IF t = MainThread THEN MainTid ELSE 0]
    /\ pc = [t \in Threads |-> IF t = MainThread THEN "run" ELSE "none"]
    /\ frame = [t \in Threads |-> NoFrame]
    /\ cl_snapshot = {}
    /\ cl_visited = {}
    /\ freeCount = [h \in Handles |-> 0]
    /\ removedByJoin = {}
    /\ ub = "none"

\* ------------------------------------------------------ pure helpers
\* C's div(): quotient truncated toward zero, remainder with the sign of n.
CQuot(n, d) == IF n >= 0 THEN n \div d ELSE 0 - ((0 - n) \div d)
CRem(n, d) == n - d * CQuot(n, d)

\* A faulty IsUntimed, to show the properties below depend on it: every join is given a deadline, 0 included.
IsUntimed_AlwaysTimed(ms) == FALSE

\* Join_internal line 316: ms == 0 selects the untimed wait (timeout NULL).
IsUntimed(ms) == ms = 0

\* Join_internal line 337: timeout.tv_nsec = divvy.rem * 1000.
TvNsec(ms) == CRem(ms, 1000) * 1000

\* pthread_cond_timedwait rejects an abstime whose tv_nsec is outside
\* [0, 10^9) with EINVAL instead of waiting.
ValidAbstime(ms) == TvNsec(ms) >= 0 /\ TvNsec(ms) < 1000000000

\* A faulty IsSelfJoin, to show the properties below depend on it: the self-join check is left out.
IsSelfJoin_Unchecked(myid, tid) == FALSE

\* Join_internal line 295: if (myid == tid).
IsSelfJoin(myid, tid) == myid = tid

\* A faulty Lookup, to show the properties below depend on it: the key is not compared, any entry is returned.
Lookup_AnyEntry(tid) ==
    IF threads.ptr = "NULL" THEN NULL
    ELSE IF \E i \in Ids : threads.tab[i] # NULL
         THEN threads.tab[CHOOSE i \in Ids : threads.tab[i] # NULL]
         ELSE NULL

\* g_hash_table_lookup guarded by threads != NULL (lines 255-260, 304-309).
Lookup(tid) ==
    IF threads.ptr = "NULL" THEN NULL
    ELSE IF tid \in Ids THEN threads.tab[tid] ELSE NULL

\* A faulty LoopCond, to show the properties below depend on it: the
\* exiting flag is not tested, a join always waits for a signal.
LoopCond_IgnoresFlag(result, exiting) == result = OK

\* timed_thread_join line 133: while (result == 0 && !thread->exiting).
LoopCond(result, exiting) == result = OK /\ ~exiting

\* A faulty JoinSucceeded, to show the properties below depend on it: only
\* a timeout is taken for a failure.
JoinSucceeded_UnlessTimeout(result) == result # ETIMEDOUT

\* A faulty JoinSucceeded, to show the properties below depend on it: a timeout is taken for a successful join.
JoinSucceeded_OrTimeout(result) == result \in {OK, ETIMEDOUT}

\* Join_internal lines 320 and 340: if (ret == 0) delete_thread(thread).
JoinSucceeded(result) == result = OK

\* The keys currently stored in the table.
Keys == {i \in Ids : threads.tab[i] # NULL}

\* The ThreadInfos currently stored in the table.
TableValues == {threads.tab[i] : i \in Keys}

\* pthread_t values the OS may give a new thread: those of no living thread.
FreeIds ==
    Ids \ {tidOf[w] : w \in {x \in Handles : pc[x] \notin {"none", "dead"}}}

\* The next ThreadInfo g_new0 returns.
Unallocated == {h \in Handles : info[h].mem = "none"}
NextHandle == CHOOSE h \in Unallocated : \A g \in Unallocated : h <= g

Freed(h) == info[h].mem = "freed"
Alive == ub = "none"

\* The ThreadInfo thread t is working on is usable memory.
Valid(t) == frame[t].thread # NULL /\ ~Freed(frame[t].thread)

\* ------------------------------------------- the worker (lines 47-91)
\* timed_thread_start_routine up to the call of the start routine:
\* pthread_once, pthread_setspecific(timed_thread_key, thread).
WStart(t) ==
    /\ Alive
    /\ pc[t] = "w_start"
    /\ specific' = [specific EXCEPT ![t] = t]
    /\ pc' = [pc EXCEPT ![t] = "run"]
    /\ UNCHANGED <<heap, sync, tidOf, frame, cl, ghost>>

\* The start routine returns s: timed_thread_exit(s) begins.  With no
\* thread-specific value it goes straight to pthread_exit (lines 52-56).
WReturn(t, s) ==
    /\ Alive
    /\ t # MainThread
    /\ pc[t] = "run"
    /\ frame' = [frame EXCEPT ![t] =
                    [NoFrame EXCEPT !.op = "exit", !.thread = specific[t],
                                    !.ret = s]]
    /\ pc' = [pc EXCEPT ![t] = IF specific[t] = NULL THEN "dead" ELSE "x_lock"]
    /\ UNCHANGED <<heap, sync, os, cl, ghost>>

\* Line 60: pthread_mutex_lock(&thread->join_mutex).
XLock(t) ==
    /\ Alive
    /\ pc[t] = "x_lock"
    /\ Valid(t)
    /\ join_mutex[frame[t].thread] = 0 - 1
    /\ join_mutex' = [join_mutex EXCEPT ![frame[t].thread] = t]
    /\ pc' = [pc EXCEPT ![t] = "x_set"]
    /\ UNCHANGED <<heap, exit_cond, os, frame, cl, ghost>>

\* A faulty ExitStore, to show the properties below depend on it: the
\* status is stored and the flag is not set.
ExitStore_NoFlag(i, s) == [i EXCEPT !.status = s]

\* Lines 64-65: thread->status = status; thread->exiting = TRUE.
ExitStore(i, s) == [i EXCEPT !.status = s, !.exiting = TRUE]

XSet(t) ==
    /\ Alive
    /\ pc[t] = "x_set"
    /\ Valid(t)
    /\ info' = [info EXCEPT ![frame[t].thread] = ExitStore(@, frame[t].ret)]
    /\ pc' = [pc EXCEPT ![t] = "x_signal"]
    /\ UNCHANGED <<threads, sync, os, frame, cl, ghost>>

\* A faulty SignalWakes, to show the properties below depend on it: the
\* signal wakes nobody.
SignalWakes_Nobody(waiters) == {{}}

\* pthread_cond_signal unblocks at least one of the threads blocked on the
\* condition, if any: the sets of waiters it may wake.
SignalWakes(waiters) ==
    IF waiters = {} THEN {{}} ELSE (SUBSET waiters) \ {{}}

\* Line 67: pthread_cond_signal(&thread->exit_cond).  A woken waiter has
\* still to reacquire the mutex before pthread_cond_wait returns 0.
XSignal(t) ==
    /\ Alive
    /\ pc[t] = "x_signal"
    /\ Valid(t)
    /\ \E W \in SignalWakes(exit_cond[frame[t].thread]) :
          /\ exit_cond' = [exit_cond EXCEPT ![frame[t].thread] = @ \ W]
          /\ pc' = [u \in Threads |->
                       IF u = t THEN "x_unlock"
                       ELSE IF u \in W THEN "jn_lock" ELSE pc[u]]
    /\ UNCHANGED <<heap, join_mutex, os, frame, cl, ghost>>

\* Line 68: pthread_mutex_unlock(&thread->join_mutex).
XUnlock(t) ==
    /\ Alive
    /\ pc[t] = "x_unlock"
    /\ Valid(t)
    /\ join_mutex' = [join_mutex EXCEPT ![frame[t].thread] = 0 - 1]
    /\ pc' = [pc EXCEPT ![t] = "x_exit"]
    /\ UNCHANGED <<heap, exit_cond, os, frame, cl, ghost>>

\* Line 73: pthread_exit(NULL).  The thread is gone and its pthread_t may
\* be given to the next thread created.
XExit(t) ==
    /\ Alive
    /\ pc[t] = "x_exit"
    /\ pc' = [pc EXCEPT ![t] = "dead"]
    /\ frame' = [frame EXCEPT ![t] = NoFrame]
    /\ UNCHANGED <<heap, sync, os, cl, ghost>>

\* --------------------------------- timed_thread_join (lines 122-151)
\* Whether the call in frame f passes a timeout to timed_thread_join:
\* Join_internal does for ms != 0 (line 339); its ms == 0 branch (line 318)
\* and join_all_threads (line 360) pass NULL.
Timed(f) == f.op = "join" /\ ~IsUntimed(f.ms)

\* Line 127, or the reacquisition that ends a pthread_cond_(timed)wait.
JoinLock(t) ==
    /\ Alive
    /\ pc[t] = "jn_lock"
    /\ Valid(t)
    /\ join_mutex[frame[t].thread] = 0 - 1
    /\ join_mutex' = [join_mutex EXCEPT ![frame[t].thread] = t]
    /\ pc' = [pc EXCEPT ![t] = "jn_test"]
    /\ UNCHANGED <<heap, exit_cond, os, frame, cl, ghost>>

\* A faulty Release, to show the properties below depend on it: the
\* joiner keeps the mutex.
Release_Kept(m, h) == m

\* join_mutex as pthread_cond_wait and pthread_cond_timedwait (lines
\* 135-140) and pthread_mutex_unlock (line 144) leave it: released.
Release(m, h) == [m EXCEPT ![h] = 0 - 1]

\* Lines 133-144 with the mutex held: the loop test, then either a wait
\* (which releases the mutex and blocks on exit_cond) or the unlock.  A
\* timed wait on an invalid abstime returns EINVAL without blocking.
JoinTest(t) ==
    LET f == frame[t]
        h == f.thread
    IN  /\ Alive
        /\ pc[t] = "jn_test"
        /\ Valid(t)
        /\ join_mutex' = Release(join_mutex, h)
        /\ IF LoopCond(f.result, info[h].exiting)
           THEN IF Timed(f) /\ ~ValidAbstime(f.ms)
                THEN /\ frame' = [frame EXCEPT ![t].result = EINVAL]
                     /\ pc' = [pc EXCEPT ![t] = "jn_unlocked"]
                     /\ UNCHANGED exit_cond
                ELSE /\ exit_cond' = [exit_cond EXCEPT ![h] = @ \cup {t}]
                     /\ pc' = [pc EXCEPT ![t] = "jn_wait"]
                     /\ UNCHANGED frame
           ELSE /\ pc' = [pc EXCEPT ![t] = "jn_unlocked"]
                /\ UNCHANGED <<exit_cond, frame>>
        /\ UNCHANGED <<heap, os, cl, ghost>>

\* pthread_cond_timedwait: the deadline passes while t is blocked.
WaitTimeout(t) ==
    /\ Alive
    /\ pc[t] = "jn_wait"
    /\ Valid(t)
    /\ Timed(frame[t])
    /\ exit_cond' = [exit_cond EXCEPT ![frame[t].thread] = @ \ {t}]
    /\ frame' = [frame EXCEPT ![t].result = ETIMEDOUT]
    /\ pc' = [pc EXCEPT ![t] = "jn_lock"]
    /\ UNCHANGED <<heap, join_mutex, os, cl, ghost>>

\* A spurious wakeup, which POSIX allows of either wait: it returns 0.
WaitSpurious(t) ==
    /\ Alive
    /\ pc[t] = "jn_wait"
    /\ Valid(t)
    /\ exit_cond' = [exit_cond EXCEPT ![frame[t].thread] = @ \ {t}]
    /\ pc' = [pc EXCEPT ![t] = "jn_lock"]
    /\ UNCHANGED <<heap, join_mutex, os, frame, cl, ghost>>

\* --------------------------- Thread_Join_internal (lines 282-351)
\* Lines 294-314: the self-join check and the table lookup.
JoinCall(t, ms, tid) ==
    LET found == IF IsSelfJoin(tidOf[t], tid) THEN NULL ELSE Lookup(tid)
    IN  /\ Alive
        /\ pc[t] = "run"
        /\ IsSelfJoin(tidOf[t], tid) \/ threads.ptr # "freed"
        /\ frame' = [frame EXCEPT ![t] =
                        [NoFrame EXCEPT !.op = "join", !.ms = ms, !.tid = tid,
                                        !.thread = found, !.ret = G_FALSE,
                                        !.late = (found # NULL
                                                  /\ info[found].exiting)]]
        /\ pc' = [pc EXCEPT ![t] = IF found = NULL THEN "ret" ELSE "jn_lock"]
        /\ UNCHANGED <<heap, sync, os, cl, ghost>>

\* delete_thread (lines 273-280) on the table: g_hash_table_remove with the
\* key &thread->id.
TabRemove(tab, key) == [i \in Ids |-> IF i = key THEN NULL ELSE tab[i]]

\* delete_thread on the ThreadInfo: g_free(thread).
FreeInfo(i) == [i EXCEPT !.mem = "freed"]

\* After timed_thread_join's unlock: line 145 reads thread->exiting again,
\* then the caller acts on the result.  Join_internal deletes the thread
\* and returns TRUE for 0, returns FALSE otherwise; g_hash_table_foreach
\* goes on to the next entry.  delete_thread's g_assert(threads != NULL)
\* aborts the process.
JoinFinish(t) ==
    LET f == frame[t]
        h == f.thread
        key == info[h].id
    IN  /\ Alive
        /\ pc[t] = "jn_unlocked"
        /\ Valid(t)
        /\ IF f.op = "cleanup"
           THEN /\ pc' = [pc EXCEPT ![t] = "cl_foreach"]
                /\ cl_visited' = cl_visited \cup {f.tid}
                /\ UNCHANGED <<heap, frame, ghost>>
           ELSE IF ~JoinSucceeded(f.result)
           THEN /\ pc' = [pc EXCEPT ![t] = "ret"]
                /\ frame' = [frame EXCEPT ![t].ret = G_FALSE]
                /\ UNCHANGED <<heap, cl_visited, ghost>>
           ELSE IF threads.ptr = "NULL"
           THEN /\ ub' = "abort"
                /\ UNCHANGED <<heap, ctl, cl_visited, freeCount,
                               removedByJoin>>
           ELSE /\ threads.ptr # "freed"
                /\ threads' = [threads EXCEPT !.tab = TabRemove(@, key)]
                /\ removedByJoin' =
                      removedByJoin \cup ({threads.tab[key]} \ {NULL})
                /\ info' = [info EXCEPT ![h] = FreeInfo(@)]
                /\ freeCount' = [freeCount EXCEPT ![h] = @ + 1]
                /\ frame' = [frame EXCEPT ![t].ret = G_TRUE]
                /\ pc' = [pc EXCEPT ![t] = "ret"]
                /\ UNCHANGED <<cl_visited, ub>>
        /\ UNCHANGED <<sync, os, cl_snapshot>>

\* The internal call returns to the managed code that made it.
Return(t) ==
    /\ Alive
    /\ pc[t] = "ret"
    /\ pc' = [pc EXCEPT ![t] = "run"]
    /\ frame' = [frame EXCEPT ![t] = NoFrame]
    /\ UNCHANGED <<heap, sync, os, cl, ghost>>

\* --------------------------- Thread_Start_internal (lines 153-199)
\* g_hash_table_insert(threads, &thread->id, thread): an equal key already
\* present keeps its place and gets the new value.
TabInsert(tab, key, h) == [i \in Ids |-> IF i = key THEN h ELSE tab[i]]

\* timed_thread_create lines 102-108: the ThreadInfo as initialised, with
\* the id pthread_create stores.
NewInfo(id) == [NoInfo EXCEPT !.mem = "live", !.id = id]

\* A faulty CreateFailed, to show the properties below depend on it: the
\* ThreadInfo is not freed when pthread_create fails.
CreateFailed_NotFreed == [NoInfo EXCEPT !.mem = "live"]

\* timed_thread_create lines 110-115: pthread_create failed, the ThreadInfo
\* is freed (g_free(thread)) and *threadp is not set.
CreateFailed == FreeInfo(NoInfo)

\* Lines 166-181 with timed_thread_create (lines 95-120).  No start method:
\* return 0.  Otherwise the ThreadInfo is allocated and initialised and
\* pthread_create is tried: on failure the ThreadInfo is freed and 0
\* returned; on success the new thread is runnable at once, with a
\* pthread_t of the OS's choosing.  hlim and idlim bound the ThreadInfos
\* and the pthread_t values a specification uses.
StartCall(t, haveFunc, created, id, hlim, idlim) ==
    LET h == NextHandle
    IN  /\ Alive
        /\ pc[t] = "run"
        /\ IF ~haveFunc
           THEN /\ frame' = [frame EXCEPT ![t] =
                               [NoFrame EXCEPT !.op = "start", !.ret = NoThread]]
                /\ pc' = [pc EXCEPT ![t] = "ret"]
                /\ UNCHANGED <<info, tidOf, freeCount>>
           ELSE /\ Unallocated # {}
                /\ h <= hlim
                /\ IF ~created
                   THEN /\ info' = [info EXCEPT ![h] = CreateFailed]
                        /\ freeCount' = [freeCount EXCEPT ![h] = @ + 1]
                        /\ frame' = [frame EXCEPT ![t] =
                                       [NoFrame EXCEPT !.op = "start",
                                                       !.ret = NoThread]]
                        /\ pc' = [pc EXCEPT ![t] = "ret"]
                        /\ UNCHANGED tidOf
                   ELSE /\ id \in FreeIds
                        /\ id <= idlim
                        /\ info' = [info EXCEPT ![h] = NewInfo(id)]
                        /\ tidOf' = [tidOf EXCEPT ![h] = id]
                        /\ frame' = [frame EXCEPT ![t] =
                                       [NoFrame EXCEPT !.op = "start",
                                                       !.thread = h]]
                        /\ pc' = [pc EXCEPT ![t] = "st_check", ![h] = "w_start"]
                        /\ UNCHANGED freeCount
        /\ UNCHANGED <<threads, sync, specific, cl, removedByJoin, ub>>

\* Line 188: if (threads == NULL), the test alone.
StartCheck(t) ==
    /\ Alive
    /\ pc[t] = "st_check"
    /\ frame' = [frame EXCEPT ![t].sawNull = (threads.ptr = "NULL")]
    /\ pc' = [pc EXCEPT ![t] = "st_new"]
    /\ UNCHANGED <<heap, sync, os, cl, ghost>>

\* Line 189: threads = g_hash_table_new(...), when the test saw NULL.  The
\* table `threads` pointed to, if another thread created one meanwhile, is
\* no longer reachable.
StartNew(t) ==
    /\ Alive
    /\ pc[t] = "st_new"
    /\ threads' = IF frame[t].sawNull
                  THEN [ptr |-> "live", tab |-> EmptyTab]
                  ELSE threads
    /\ pc' = [pc EXCEPT ![t] = "st_insert"]
    /\ UNCHANGED <<info, sync, os, frame, cl, ghost>>

\* Lines 192-195: thread->object = this; g_hash_table_insert.  On a NULL
\* table g_hash_table_insert returns without inserting.
StartInsert(t) ==
    LET h == frame[t].thread
    IN  /\ Alive
        /\ pc[t] = "st_insert"
        /\ Valid(t)
        /\ threads.ptr # "freed"
        /\ info' = [info EXCEPT ![h].object = ThisOf(h)]
        /\ threads' = IF threads.ptr = "NULL" THEN threads
                      ELSE [threads EXCEPT !.tab = TabInsert(@, info[h].id, h)]
        /\ pc' = [pc EXCEPT ![t] = "st_ret"]
        /\ UNCHANGED <<sync, os, frame, cl, ghost>>

\* Line 197: return(thread->id).
StartRet(t) ==
    /\ Alive
    /\ pc[t] = "st_ret"
    /\ Valid(t)
    /\ frame' = [frame EXCEPT ![t].ret = info[frame[t].thread].id]
    /\ pc' = [pc EXCEPT ![t] = "ret"]
    /\ UNCHANGED <<heap, sync, os, cl, ghost>>

\* --------------------------- Thread_Sleep_internal (lines 201-232)
\* Lines 211-214: the request handed to nanosleep, in nanoseconds:
\* req.tv_sec = divvy.quot, req.tv_nsec = divvy.rem * 1000.
SleepReqNs(ms) == CQuot(ms, 1000) * 1000000000 + CRem(ms, 1000) * 1000

\* Line 219: rems = rem.tv_sec * 1000 + rem.tv_nsec / 1000.
SleepRems(tv_sec, tv_nsec) == tv_sec * 1000 + CQuot(tv_nsec, 1000)

\* The times nanosleep may report as remaining of a request: steps of
\* 25 ms, and the whole request.
RemValues(req) ==
    {r \in {k * 25000000 : k \in 0 .. 80} : r <= req} \cup {req}

\* The whole call: nanosleep either completes (return 0) or is
\* interrupted with r nanoseconds remaining (return rems).
SleepCall(t, ms, interrupted, r) ==
    /\ Alive
    /\ pc[t] = "run"
    /\ r \in RemValues(SleepReqNs(ms))
    /\ ~interrupted => r = 0
    /\ frame' = [frame EXCEPT ![t] =
                    [NoFrame EXCEPT
                        !.op = "sleep", !.ms = ms, !.rem = r,
                        !.result = IF interrupted THEN EINTR ELSE OK,
                        !.ret = IF interrupted
                                THEN SleepRems(r \div 1000000000,
                                               r % 1000000000)
                                ELSE 0]]
    /\ pc' = [pc EXCEPT ![t] = "ret"]
    /\ UNCHANGED <<heap, sync, os, cl, ghost>>

\* ------------------- Thread_CurrentThread_internal (lines 246-271)
\* Lines 252-267: look pthread_self() up; not found means the main thread.
CurCall(t) ==
    LET found == Lookup(tidOf[t])
    IN  /\ Alive
        /\ pc[t] = "run"
        /\ threads.ptr # "freed"
        /\ frame' = [frame EXCEPT ![t] =
                        [NoFrame EXCEPT !.op = "current", !.tid = tidOf[t],
                                        !.thread = found, !.ret = main_thread]]
        /\ pc' = [pc EXCEPT ![t] = IF found = NULL THEN "ret" ELSE "ct_deref"]
        /\ UNCHANGED <<heap, sync, os, cl, ghost>>

\* Line 269: return(thread_info->object).
CurDeref(t) ==
    /\ Alive
    /\ pc[t] = "ct_deref"
    /\ Valid(t)
    /\ frame' = [frame EXCEPT ![t].ret = info[frame[t].thread].object]
    /\ pc' = [pc EXCEPT ![t] = "ret"]
    /\ UNCHANGED <<heap, sync, os, cl, ghost>>

\* ----------------------------- mono_thread_cleanup (lines 387-406)
\* The keys of the entries g_hash_table_foreach (line 401) began with.
SnapshotKeys == {e[1] : e \in cl_snapshot}

\* Lines 394-401: return when there is no table, else begin
\* g_hash_table_foreach(threads, join_all_threads, NULL).
ClCall(t) ==
    /\ Alive
    /\ t = MainThread
    /\ pc[t] = "run"
    /\ threads.ptr # "freed"
    /\ frame' = [frame EXCEPT ![t] = [NoFrame EXCEPT !.op = "cleanup"]]
    /\ pc' = [pc EXCEPT ![t] = IF threads.ptr = "NULL" THEN "ret"
                                ELSE "cl_foreach"]
    /\ cl_snapshot' = {<<i, threads.tab[i]>> : i \in Keys}
    /\ cl_visited' = {}
    /\ UNCHANGED <<heap, sync, os, ghost>>

\* g_hash_table_foreach hands the next entry to join_all_threads (lines
\* 353-361), which calls timed_thread_join(thread_info, NULL, NULL).
ClNext(t, id) ==
    /\ Alive
    /\ pc[t] = "cl_foreach"
    /\ id \in Keys \ cl_visited
    /\ frame' = [frame EXCEPT ![t] =
                    [NoFrame EXCEPT !.op = "cleanup", !.tid = id,
                                    !.thread = threads.tab[id]]]
    /\ pc' = [pc EXCEPT ![t] = "jn_lock"]
    /\ UNCHANGED <<heap, sync, os, cl, ghost>>

\* g_hash_table_foreach is over: every entry that was there when it began
\* and still is has been visited (one inserted meanwhile may be skipped).
ClForeachDone(t) ==
    /\ Alive
    /\ pc[t] = "cl_foreach"
    /\ (SnapshotKeys \cap Keys) \subseteq cl_visited
    /\ pc' = [pc EXCEPT ![t] = "cl_remove"]
    /\ frame' = [frame EXCEPT ![t] = [NoFrame EXCEPT !.op = "cleanup"]]
    /\ UNCHANGED <<heap, sync, os, cl, ghost>>

\* Line 403: g_hash_table_foreach_remove(threads, free_all_threadinfo, NULL)
\* frees every value (lines 363-368) and empties the table.  Freeing a
\* ThreadInfo a join has freed already is a double free.
ClRemove(t) ==
    /\ Alive
    /\ pc[t] = "cl_remove"
    /\ freeCount' = [h \in Handles |->
                        IF h \in TableValues THEN freeCount[h] + 1
                        ELSE freeCount[h]]
    /\ IF \E h \in TableValues : Freed(h)
       THEN /\ ub' = "double-free"
            /\ UNCHANGED <<heap, ctl>>
       ELSE /\ info' = [h \in Handles |->
                           IF h \in TableValues THEN FreeInfo(info[h])
                           ELSE info[h]]
            /\ threads' = [threads EXCEPT !.tab = EmptyTab]
            /\ pc' = [pc EXCEPT ![t] = "cl_destroy"]
            /\ UNCHANGED <<frame, ub>>
    /\ UNCHANGED <<sync, os, cl, removedByJoin>>

\* Line 404: g_hash_table_destroy(threads).
ClDestroy(t) ==
    /\ Alive
    /\ pc[t] = "cl_destroy"
    /\ threads' = [ptr |-> "freed", tab |-> EmptyTab]
    /\ pc' = [pc EXCEPT ![t] = "cl_null"]
    /\ UNCHANGED <<info, sync, os, frame, cl, ghost>>

\* Line 405: threads = NULL, and the return.
ClNull(t) ==
    /\ Alive
    /\ pc[t] = "cl_null"
    /\ threads' = [ptr |-> "NULL", tab |-> EmptyTab]
    /\ pc' = [pc EXCEPT ![t] = "ret"]
    /\ UNCHANGED <<info, sync, os, frame, cl, ghost>>

\* ------------------------------------------- undefined behaviour
\* The places that lock, wait on, read or write the ThreadInfo a thread
\* holds a pointer to.
HandlePcs == {"x_lock", "x_set", "x_signal", "x_unlock", "jn_lock", "jn_test",
              "jn_wait", "jn_unlocked", "st_insert", "st_ret", "ct_deref"}

\* Thread t uses a ThreadInfo that has been freed.  What the process does
\* from there is undefined: the model stops at the first such use.
UseFreedInfo(t) ==
    /\ Alive
    /\ pc[t] \in HandlePcs
    /\ frame[t].thread # NULL
    /\ Freed(frame[t].thread)
    /\ ub' = "use-after-free"
    /\ UNCHANGED <<heap, sync, os, ctl, cl, freeCount, removedByJoin>>

\* Thread t uses the table between g_hash_table_destroy (line 404) and
\* threads = NULL (line 405): a lookup by a call it makes, an insert, a
\* remove.
UseFreedTable(t) ==
    /\ Alive
    /\ threads.ptr = "freed"
    /\ \/ pc[t] \in {"run", "st_insert"}
       \/ pc[t] = "jn_unlocked" /\ frame[t].op = "join"
                                /\ JoinSucceeded(frame[t].result)
    /\ ub' = "use-after-free"
    /\ UNCHANGED <<heap, sync, os, ctl, cl, freeCount, removedByJoin>>

\* ------------------------------------------------- specifications
\* The steps of the threads, with at most hlim ThreadInfos allocated and
\* the pthread_t values 1..idlim given to the threads created.
Steps(hlim, idlim) ==
    \/ \E t \in Handles : WStart(t)
    \/ \E t \in Handles : \E s \in Statuses(t) : WReturn(t, s)
    \/ \E t \in Handles : XLock(t)
    \/ \E t \in Handles : XSet(t)
    \/ \E t \in Handles : XSignal(t)
    \/ \E t \in Handles : XUnlock(t)
    \/ \E t \in Handles : XExit(t)
    \/ \E t \in Threads, ms \in MsValues :
          \E tid \in Ids \cup {tidOf[t]} : JoinCall(t, ms, tid)
    \/ \E t \in Threads : JoinLock(t)
    \/ \E t \in Threads : JoinTest(t)
    \/ \E t \in Threads : WaitTimeout(t)
    \/ \E t \in Threads : WaitSpurious(t)
    \/ \E t \in Threads : JoinFinish(t)
    \/ \E t \in Threads : Return(t)
    \/ \E t \in Threads, haveFunc \in BOOLEAN, created \in BOOLEAN, id \in Ids :
          StartCall(t, haveFunc, created, id, hlim, idlim)
    \/ \E t \in Threads : StartCheck(t)
    \/ \E t \in Threads : StartNew(t)
    \/ \E t \in Threads : StartInsert(t)
    \/ \E t \in Threads : StartRet(t)
    \/ \E t \in Threads : CurCall(t)
    \/ \E t \in Threads : CurDeref(t)
    \/ ClCall(MainThread)
    \/ \E id \in Ids : ClNext(MainThread, id)
    \/ ClForeachDone(MainThread)
    \/ ClRemove(MainThread)
    \/ ClDestroy(MainThread)
    \/ ClNull(MainThread)

\* Any thread may make any call at any time.
Next ==
    \/ Steps(ConcHandles, MaxIds)
    \/ \E t \in Threads : UseFreedInfo(t)
    \/ \E t \in Threads : UseFreedTable(t)

Spec == Init /\ [][Next]_vars

\* The same with the smaller bounds; a run ends where a thread would use
\* freed memory.
NextSmall == Steps(SmallHandles, SmallIds)

SpecSmall == Init /\ [][NextSmall]_vars

\* The initial thread starts the workers one after the other and the
\* workers join one another without a deadline: MaxHandles ThreadInfos over
\* MaxIds identities, so that pthread_create hands the identity of an
\* exited worker out again.
NextReuse ==
    \/ \E t \in Handles : WStart(t)
    \/ \E t \in Handles : \E s \in Statuses(t) : WReturn(t, s)
    \/ \E t \in Handles : XLock(t)
    \/ \E t \in Handles : XSet(t)
    \/ \E t \in Handles : XSignal(t)
    \/ \E t \in Handles : XUnlock(t)
    \/ \E t \in Handles : XExit(t)
    \/ \E t \in Handles : \E tid \in Ids : JoinCall(t, 0, tid)
    \/ \E t \in Handles : JoinLock(t)
    \/ \E t \in Handles : JoinTest(t)
    \/ \E t \in Handles : JoinFinish(t)
    \/ \E t \in Threads : Return(t)
    \/ \E id \in Ids : StartCall(MainThread, TRUE, TRUE, id, MaxHandles, MaxIds)
    \/ StartCheck(MainThread)
    \/ StartNew(MainThread)
    \/ StartInsert(MainThread)
    \/ StartRet(MainThread)

SpecReuse == Init /\ [][NextReuse]_vars

\* The initial thread starts ConcHandles workers one after the other, each
\* with a pthread_t of its own; it and the last of the workers join the
\* first one, with and without a deadline, as often as they like.
NextPair ==
    \/ \E t \in Handles : WStart(t)
    \/ \E t \in Handles : \E s \in Statuses(t) : WReturn(t, s)
    \/ \E t \in Handles : XLock(t)
    \/ \E t \in Handles : XSet(t)
    \/ \E t \in Handles : XSignal(t)
    \/ \E t \in Handles : XUnlock(t)
    \/ \E t \in Handles : XExit(t)
    \/ \E t \in {MainThread, ConcHandles}, ms \in MsValues :
          JoinCall(t, ms, tidOf[Min(Handles)])
    \/ \E t \in Threads : JoinLock(t)
    \/ \E t \in Threads : JoinTest(t)
    \/ \E t \in Threads : WaitTimeout(t)
    \/ \E t \in Threads : WaitSpurious(t)
    \/ \E t \in Threads : JoinFinish(t)
    \/ \E t \in Threads : Return(t)
    \/ StartCall(MainThread, TRUE, TRUE, NextHandle, ConcHandles, MaxIds)
    \/ StartCheck(MainThread)
    \/ StartNew(MainThread)
    \/ StartInsert(MainThread)
    \/ StartRet(MainThread)

SpecPair == Init /\ [][NextPair]_vars

\* The initial thread starts SmallHandles workers and is the only thread
\* that joins, with and without a deadline: every ThreadInfo has at most
\* one joiner at a time.
NextSingle ==
    \/ \E t \in Handles : WStart(t)
    \/ \E t \in Handles : \E s \in Statuses(t) : WReturn(t, s)
    \/ \E t \in Handles : XLock(t)
    \/ \E t \in Handles : XSet(t)
    \/ \E t \in Handles : XSignal(t)
    \/ \E t \in Handles : XUnlock(t)
    \/ \E t \in Handles : XExit(t)
    \/ \E ms \in MsValues, tid \in Ids : JoinCall(MainThread, ms, tid)
    \/ JoinLock(MainThread)
    \/ JoinTest(MainThread)
    \/ WaitTimeout(MainThread)
    \/ WaitSpurious(MainThread)
    \/ JoinFinish(MainThread)
    \/ Return(MainThread)
    \/ \E id \in Ids : StartCall(MainThread, TRUE, TRUE, id, SmallHandles, SmallIds)
    \/ StartCheck(MainThread)
    \/ StartNew(MainThread)
    \/ StartInsert(MainThread)
    \/ StartRet(MainThread)

SpecSingle == Init /\ [][NextSingle]_vars

\* The initial thread sleeps, again and again.
NextSleep ==
    \/ \E ms \in SleepMsValues, interrupted \in BOOLEAN :
          \E r \in RemValues(SleepReqNs(ms)) :
             SleepCall(MainThread, ms, interrupted, r)
    \/ Return(MainThread)

SpecSleep == Init /\ [][NextSleep]_vars

\* Fair scheduling, in a weak form: while some worker inside
\* timed_thread_exit's critical section can take its next step one of them
\* does, likewise for the joiners at the loop test, and when again and
\* again some worker finds join_mutex free one of them gets it.
PairFairness ==
    /\ SF_vars(\E h \in Handles : XLock(h))
    /\ WF_vars(\E h \in Handles : XSet(h) \/ XSignal(h) \/ XUnlock(h))
    /\ WF_vars(\E t \in Threads : JoinTest(t))

SpecPairFair == SpecPair /\ PairFairness

\* ------------------------------------------------------------ claims
\* Thread t is inside timed_thread_join.
JoinPcs == {"jn_lock", "jn_test", "jn_wait", "jn_unlocked"}

\* The worker of ThreadInfo h has left timed_thread_exit's critical
\* section: exiting is set, the signal sent and the mutex released.
ExitPathRun(h) == pc[h] \in {"x_exit", "dead"}

\* C1: once the worker's exit path has run, every thread that was blocked
\* in an unbounded join on its handle returns Exited; none stays blocked.
\* Stated on states: after the exit path has run (no further signal will
\* come) no thread is still blocked in an untimed wait on the handle.
C1_NoJoinerLeftBlocked ==
    \A h \in Handles :
        ExitPathRun(h) /\ ~Freed(h) =>
            \A t \in exit_cond[h] : frame[t].op = "join" /\ frame[t].ms # 0

\* C2: each handle is freed at most once and no thread locks, waits on or
\* reads a handle after it has been freed, under any interleaving of joins
\* on one identity with each other and with shutdown.
C2_NoUseAfterFree ==
    /\ \A h \in Handles : freeCount[h] <= 1
    /\ \A t \in Threads :
          pc[t] \in JoinPcs => ~Freed(frame[t].thread)

\* Thread t's step is the call of Join_internal.
IsJoinCall(t) == pc[t] = "run" /\ frame'[t].op = "join"

\* Thread t's step is the return of Join_internal from timed_thread_join.
IsJoinReturn(t) ==
    pc[t] = "jn_unlocked" /\ frame[t].op = "join" /\ pc'[t] = "ret"

\* The table holds no entry under tid.
NoEntry(tid) ==
    threads.ptr = "NULL" \/ tid \notin Ids \/ threads.tab[tid] = NULL

\* C3: a join with timeoutMs = 0 that found a handle never gets a timeout
\* (or any other failure) from its wait, leaves the wait loop only with
\* the worker's exiting flag set, and returns TRUE only then.
C3_UntimedJoinWaitsForExit ==
    \A t \in Threads :
        frame[t].op = "join" /\ frame[t].ms = 0 /\ frame[t].thread # NULL =>
            /\ frame[t].result = OK
            /\ pc[t] \in {"jn_unlocked", "ret"} =>
                  info[frame[t].thread].exiting
            /\ pc[t] = "ret" => frame[t].ret = G_TRUE

\* An untimed join has returned TRUE for a worker that was still running
\* when the call was made.
C3_Witness ==
    \E t \in Threads :
        /\ pc[t] = "ret" /\ frame[t].op = "join" /\ frame[t].ms = 0
        /\ frame[t].ret = G_TRUE /\ ~frame[t].late

\* C4: a timed join whose wait timed out returns FALSE and leaves the
\* table and every ThreadInfo as they were; a join that looked the handle
\* up after the worker had set exiting returns TRUE.
C4_TimeoutThenRetry ==
    [][\A t \in Threads :
          IsJoinReturn(t) =>
             /\ frame[t].result = ETIMEDOUT =>
                   frame'[t].ret = G_FALSE /\ UNCHANGED heap
             /\ frame[t].late => frame'[t].ret = G_TRUE]_vars

\* A timed join has returned FALSE on a timeout; the worker is still
\* running and its entry is still in the table.
C4_Witness ==
    \E t \in Threads :
        /\ pc[t] = "ret" /\ frame[t].op = "join" /\ frame[t].ms > 0
        /\ frame[t].result = ETIMEDOUT /\ frame[t].ret = G_FALSE
        /\ ~info[frame[t].thread].exiting
        /\ threads.ptr = "live" /\ threads.tab[frame[t].tid] = frame[t].thread

\* C6: a join on the caller's own identity returns FALSE at once: it goes
\* to no lock and no wait, and changes neither the table, nor a ThreadInfo,
\* nor a mutex or condition, whatever ms is and registered or not.
C6_SelfJoinRejected ==
    [][\A t \in Threads :
          IsJoinCall(t) /\ frame'[t].tid = tidOf[t] =>
             /\ pc'[t] = "ret"
             /\ frame'[t].ret = G_FALSE
             /\ frame'[t].thread = NULL
             /\ UNCHANGED <<heap, sync>>]_vars

\* A worker whose identity is registered has been refused a self-join.
C6_Witness ==
    \E t \in Handles :
        /\ pc[t] = "ret" /\ frame[t].op = "join" /\ frame[t].tid = tidOf[t]
        /\ frame[t].ret = G_FALSE
        /\ threads.ptr = "live" /\ threads.tab[tidOf[t]] = t

\* C10: a join on an identity with no entry (no table, never registered,
\* or removed by an earlier join) returns FALSE at once, going to no lock
\* and no wait and leaving table, ThreadInfos and mutexes untouched.
C10_UnknownIdRejected ==
    [][\A t \in Threads :
          IsJoinCall(t) /\ NoEntry(frame'[t].tid) =>
             /\ pc'[t] = "ret"
             /\ frame'[t].ret = G_FALSE
             /\ frame'[t].thread = NULL
             /\ UNCHANGED <<heap, sync>>]_vars

\* A join has been refused on the identity of a worker that an earlier
\* join removed from the table.
C10_Witness ==
    \E t \in Threads :
        /\ pc[t] = "ret" /\ frame[t].op = "join" /\ frame[t].tid # tidOf[t]
        /\ frame[t].thread = NULL /\ frame[t].ret = G_FALSE
        /\ NoEntry(frame[t].tid)
        /\ \E h \in removedByJoin : info[h].id = frame[t].tid

\* C5: a join that found a handle returns TRUE only when the worker of
\* that handle has set exiting, and has then removed that worker's entry;
\* the entry a join removes is never that of a worker that has not exited.
C5_JoinRemovesOnlyExited ==
    /\ \A t \in Threads :
          /\ pc[t] = "ret" /\ frame[t].op = "join"
          /\ frame[t].ret = G_TRUE
          => /\ info[frame[t].thread].exiting
             /\ threads.ptr = "live" =>
                   threads.tab[frame[t].tid] # frame[t].thread
    /\ \A h \in removedByJoin : info[h].exiting

StartPcs == {"st_check", "st_new", "st_insert", "st_ret"}

\* The worker of ThreadInfo h is still running its start routine.
Running(h) == info[h].mem = "live" /\ pc[h] \in {"w_start", "run", "ret"} \cup StartPcs \cup JoinPcs \cup {"ct_deref"}

\* C7: once every Start_internal call has returned, and as long as no join
\* has removed an entry and no ThreadInfo has been freed, every worker that
\* is still running has its own pthread_t, and the table holds that
\* worker's ThreadInfo under it.
C7_ConcurrentStartsRegistered ==
    /\ \A t \in Threads : frame[t].op # "start"
    /\ removedByJoin = {}
    /\ \A h \in Handles : ~Freed(h)
    => \A h \in Handles :
          Running(h) =>
             /\ \A g \in Handles : g # h /\ Running(g) => info[g].id # info[h].id
             /\ threads.ptr = "live"
             /\ threads.tab[info[h].id] = h

\* C8: CurrentThread_internal called by a worker returns the object that
\* was given to the Start_internal call that created the worker.
C8_CurrentOwnerInWorker ==
    \A t \in Handles :
        pc[t] = "ret" /\ frame[t].op = "current" => frame[t].ret = ThisOf(t)

\* mono_thread_cleanup is past g_hash_table_foreach (line 401).
ForeachOver ==
    /\ frame[MainThread].op = "cleanup"
    /\ pc[MainThread] \in {"cl_remove", "cl_destroy", "cl_null", "ret"}

\* C9: mono_thread_cleanup is past its joins only when every worker that
\* had an entry at the call has set exiting; it is never left waiting for
\* a worker whose exit path has run; and when it returns, the entries of
\* those workers are gone and each of their ThreadInfos has been freed
\* exactly once.
C9_DrainAll ==
    /\ ForeachOver => \A e \in cl_snapshot : info[e[2]].exiting
    /\ /\ pc[MainThread] = "jn_wait"
       /\ frame[MainThread].op = "cleanup"
       => ~ExitPathRun(frame[MainThread].thread)
    /\ pc[MainThread] = "ret" /\ frame[MainThread].op = "cleanup" =>
          \A e \in cl_snapshot :
             /\ freeCount[e[2]] = 1
             /\ threads.ptr = "live" => threads.tab[e[1]] # e[2]

\* Thread t's step is the call of Start_internal.
IsStartCall(t) == pc[t] = "run" /\ frame'[t].op = "start"

\* C11: a Start_internal call that fails (no start method, or pthread_create
\* fails) returns 0 at once, starts no thread and leaves the table as it
\* was (not created, no entry added); a ThreadInfo allocated for a thread
\* that was never created has been freed, once, and is in no table entry,
\* no thread's hands and no thread-specific value.
C11_FailedStart ==
    /\ [](\A h \in Handles :
             pc[h] = "none" /\ info[h].mem # "none" =>
                /\ Freed(h) /\ freeCount[h] = 1
                /\ h \notin TableValues
                /\ \A u \in Threads : frame[u].thread # h /\ specific[u] # h)
    /\ [][\A t \in Threads :
             IsStartCall(t) /\ pc'[t] = "ret" =>
                /\ frame'[t].ret = NoThread
                /\ frame'[t].thread = NULL
                /\ UNCHANGED threads
                /\ \A h \in Handles : h # t => pc'[h] = pc[h]]_vars

\* A Start_internal call has returned 0 after pthread_create failed: the
\* ThreadInfo is freed and there is still no table.
C11_Witness ==
    \E t \in Threads :
        /\ pc[t] = "ret" /\ frame[t].op = "start" /\ frame[t].ret = NoThread
        /\ threads.ptr = "NULL"
        /\ \E h \in Handles : Freed(h) /\ pc[h] = "none"

\* C12: timed_thread_join on a ThreadInfo whose worker has set exiting, and
\* that has not been freed, returns 0 without waiting, as often as it is
\* called and with or without a timeout; no step of it changes a field of
\* a ThreadInfo, so every such join finds the same status, the value the
\* worker's start routine returned.
C12_JoinIdempotent ==
    /\ [](\A t \in Threads :
             /\ pc[t] \in JoinPcs /\ frame[t].late
             /\ ~Freed(frame[t].thread)
             => /\ frame[t].result = OK
                /\ pc[t] # "jn_wait"
                /\ info[frame[t].thread].exiting
                /\ info[frame[t].thread].status \in Statuses(frame[t].thread))
    /\ [][\A t \in Threads :
             /\ pc[t] \in {"jn_lock", "jn_test"} /\ frame[t].late
             /\ pc'[t] # pc[t]
             => info' = info]_vars

\* Two threads have each been through timed_thread_join on the same
\* ThreadInfo, whose worker had exited before either call: both hold the
\* result 0 and the ThreadInfo has not been freed yet.
C12_Witness ==
    \E t, u \in Threads :
        /\ t # u
        /\ pc[t] = "jn_unlocked" /\ pc[u] = "jn_unlocked"
        /\ frame[t].thread = frame[u].thread
        /\ frame[t].late /\ frame[u].late
        /\ frame[t].result = OK /\ frame[u].result = OK
        /\ frame[t].ms = 0 /\ frame[u].ms # 0
        /\ ~Freed(frame[t].thread)

\* C13: Start_internal never inserts under a pthread_t that still has an
\* entry: when the OS gives a new worker the pthread_t of an exited one,
\* the exited worker's entry is gone before g_hash_table_insert (line 195)
\* runs, so that no entry's ThreadInfo is replaced.
C13_NoInsertOverEntry ==
    [][\A t \in Threads :
          /\ pc[t] = "st_insert" /\ pc'[t] = "st_ret"
          /\ threads.ptr = "live"
          => threads.tab[info[frame[t].thread].id] = NULL]_vars

\* C14: CurrentThread_internal called by the initial thread returns
\* main_thread, whatever the state of the table; main_thread is the object
\* of no ThreadInfo, and the initial thread's pthread_t is no key of the
\* table.
C14_MainThreadSentinel ==
    /\ pc[MainThread] = "ret" /\ frame[MainThread].op = "current" =>
          frame[MainThread].ret = main_thread
    /\ pc[MainThread] # "ct_deref"
    /\ \A h \in Handles : info[h].object # main_thread
    /\ tidOf[MainThread] \notin Keys

\* The initial thread has been answered main_thread while the table held
\* an entry.
C14_Witness ==
    /\ pc[MainThread] = "ret" /\ frame[MainThread].op = "current"
    /\ frame[MainThread].ret = main_thread
    /\ threads.ptr = "live" /\ Keys # {}

\* C15: a ThreadInfo's exiting flag and status change in one step only,
\* the worker's own, from FALSE to TRUE and with the worker holding
\* join_mutex before and after; the flag is never reset.  The worker
\* signals exit_cond with the flag set and the mutex still held, and
\* while the flag is not set the worker has not signalled.
C15_ExitingSetOnceUnderMutex ==
    /\ [](\A h \in Handles :
             /\ pc[h] \in {"x_signal", "x_unlock"} /\ ~Freed(h) =>
                   info[h].exiting /\ join_mutex[h] = h
             /\ info[h].exiting =>
                   pc[h] \in {"x_signal", "x_unlock", "x_exit", "dead"}
             /\ ~info[h].exiting => info[h].status = NULL)
    /\ [][\A h \in Handles :
             \/ info'[h].exiting # info[h].exiting
             \/ info'[h].status # info[h].status
             => /\ ~info[h].exiting /\ info'[h].exiting
                /\ info'[h].status \in Statuses(h)
                /\ pc[h] = "x_set" /\ pc'[h] = "x_signal"
                /\ join_mutex[h] = h /\ join_mutex'[h] = h]_vars

\* A worker is about to signal: the flag is set, it holds the mutex, and
\* a joiner is blocked on exit_cond.
C15_Witness ==
    \E h \in Handles :
        /\ pc[h] = "x_signal" /\ info[h].exiting /\ join_mutex[h] = h
        /\ exit_cond[h] # {}

\* C16: with one joiner, no wakeup is lost.  A joiner that tests the flag
\* (holding the mutex) after the worker has set it leaves the loop with 0
\* and does not wait; a thread is left blocked on exit_cond with the flag
\* set only until the worker's signal, which wakes it; and a join holds
\* the result 0 outside the loop only when the flag is set.
C16_NoLostWakeup ==
    /\ [](\A h \in Handles : \A t \in exit_cond[h] :
             /\ pc[t] = "jn_wait" /\ frame[t].thread = h
             /\ info[h].exiting => pc[h] = "x_signal")
    /\ [](\A t \in Threads :
             /\ pc[t] \in {"jn_unlocked", "ret"} /\ frame[t].op = "join"
             /\ frame[t].thread # NULL /\ frame[t].result = OK
             => info[frame[t].thread].exiting)
    /\ [][\A t \in Threads :
             /\ pc[t] = "jn_test" /\ pc'[t] # "jn_test"
             /\ frame[t].result = OK /\ info[frame[t].thread].exiting
             => /\ pc'[t] = "jn_unlocked"
                /\ frame'[t].result = OK
                /\ t \notin exit_cond'[frame[t].thread]]_vars

\* The worker has set the flag and is about to signal while the joiner,
\* which came first, is blocked in an untimed wait.
C16_Witness ==
    \E h \in Handles : \E t \in exit_cond[h] :
        /\ pc[h] = "x_signal"
        /\ frame[t].op = "join" /\ frame[t].ms = 0 /\ ~frame[t].late

\* Thread t takes a step of a Join_internal call.
IsJoinStep(t) ==
    /\ frame[t].op = "join" \/ frame'[t].op = "join"
    /\ pc'[t] # pc[t]

\* C17: a Join_internal call changes the table or a ThreadInfo only in
\* the step that returns TRUE.  A call on the caller's own pthread_t or on
\* one with no entry, and a call whose wait ended with ETIMEDOUT or with
\* another error, returns FALSE, so the call has changed nothing: the
\* entry it found is as it was.
C17_FalseJoinChangesNothing ==
    [][\A t \in Threads :
          IsJoinStep(t) =>
             /\ ~(pc'[t] = "ret" /\ frame'[t].ret = G_TRUE) => UNCHANGED heap
             /\ pc[t] = "jn_unlocked" /\ frame[t].result # OK =>
                   pc'[t] = "ret" /\ frame'[t].ret = G_FALSE
             /\ /\ IsJoinCall(t)
                /\ frame'[t].tid = tidOf[t] \/ NoEntry(frame'[t].tid)
                => pc'[t] = "ret" /\ frame'[t].ret = G_FALSE]_vars

\* A join has returned FALSE because pthread_cond_timedwait refused its
\* abstime: the worker is running and its entry is still in the table.
C17_Witness ==
    \E t \in Threads :
        /\ pc[t] = "ret" /\ frame[t].op = "join"
        /\ frame[t].result = EINVAL /\ frame[t].ret = G_FALSE
        /\ pc[frame[t].thread] = "run"
        /\ threads.ptr = "live" /\ threads.tab[frame[t].tid] = frame[t].thread

\* C18: for ms > 0 the abstime a join passes to pthread_cond_timedwait has
\* as its sub-second part the ms mod 1000 milliseconds in nanoseconds, so
\* that the deadline is the time of the call plus ms milliseconds.
C18_DeadlineIsNowPlusMs ==
    \A t \in Threads :
        /\ pc[t] \in JoinPcs /\ frame[t].op = "join" /\ frame[t].ms > 0
        => TvNsec(frame[t].ms) = CRem(frame[t].ms, 1000) * 1000000

\* C19: Sleep_internal(ms), ms >= 0, asks nanosleep for exactly ms
\* milliseconds; it returns 0 when nanosleep completes, and when nanosleep
\* is interrupted it returns the remaining time in whole milliseconds
\* (seconds * 1000 + nanoseconds div 1000000), between 0 and ms.
C19_SleepInMilliseconds ==
    \A t \in Threads :
        pc[t] = "ret" /\ frame[t].op = "sleep" =>
           /\ SleepReqNs(frame[t].ms) = frame[t].ms * 1000000
           /\ frame[t].result = OK => frame[t].ret = 0
           /\ frame[t].result = EINTR =>
                 /\ frame[t].ret = (frame[t].rem \div 1000000000) * 1000
                                   + (frame[t].rem % 1000000000) \div 1000000
                 /\ frame[t].ret >= 0 /\ frame[t].ret <= frame[t].ms

\* C20: joiners cannot keep a worker from terminating.  A joiner holds
\* join_mutex only between locking it and the loop test, never while it
\* is blocked in a wait or after the unlock, so a worker in
\* timed_thread_exit is never up against a mutex whose holder is blocked;
\* under fair scheduling a worker whose start routine has returned gets
\* through timed_thread_exit, with the flag set.
C20_JoinersCannotBlockWorker ==
    /\ [](\A h \in Handles : \A t \in Threads :
             join_mutex[h] = t /\ t # h =>
                pc[t] = "jn_test" /\ frame[t].thread = h)
    /\ [](\A h \in Handles :
             join_mutex[h] = h => pc[h] \in {"x_set", "x_signal", "x_unlock"})
    /\ \A h \in Handles :
          pc[h] = "x_lock" ~> (pc[h] \in {"x_exit", "dead"} /\ info[h].exiting)

\* A worker is at pthread_mutex_lock in timed_thread_exit while one
\* joiner is blocked in an untimed wait and another, timed, holds the
\* mutex for its loop test.
C20_Witness ==
    \E h \in Handles : \E t, u \in Threads :
        /\ pc[h] = "x_lock"
        /\ t \in exit_cond[h] /\ frame[t].ms = 0
        /\ join_mutex[h] = u /\ pc[u] = "jn_test" /\ frame[u].ms # 0

====
